---- MODULE Spec2Model ----
(***************************************************************************)
(* Model of kinopoisk-export (src/main.go): the harvest path (export,      *)
(* parseFirstPage, findPagingHeader, parsePage, findMovies, processMovies, *)
(* processMovie, extractId, dumpFile) and the replay path (importMovies,   *)
(* setMovieWatched, readMoviesCsv).                                        *)
(*                                                                         *)
(* Strings are sequences of one-character strings, so that strings.Split,  *)
(* strings.Contains and strconv.Atoi are computed and not assumed.         *)
(* A Go panic (index out of range, nil dereference, integer divide by      *)
(* zero) ends the process: pc = "panic".                                   *)
(***************************************************************************)
EXTENDS Integers, Sequences, FiniteSets, TLC

(***************************************************************************)
(* Bounds of the model.                                                    *)
(***************************************************************************)
\* numbers 0..MaxNum appear as first, last and total in generated markers
MaxNum == 2
\* attempts explored per retry loop (the loops of the code are unbounded)
MaxTries == 3
\* records in a replayed file
MaxRecords == 3
\* slash-delimited segments of a generated link target
MaxSegs == 4
\* children of a generated listing container
MaxChildren == 2

(***************************************************************************)
(* Strings.                                                                *)
(***************************************************************************)
Digits == <<"0", "1", "2", "3", "4", "5", "6", "7", "8", "9">>

IsDigit(c) == \E k \in 1..10 : Digits[k] = c

DigitVal(c) == (CHOOSE k \in 1..10 : Digits[k] = c) - 1

\* s[from..to], empty when from > to
Sub(s, from, to) == [k \in 1..(IF to >= from THEN to - from + 1 ELSE 0) |-> s[from + k - 1]]

HasAt(s, sep, p) ==
    /\ p + Len(sep) - 1 <= Len(s)
    /\ \A k \in 1..Len(sep) : s[p + k - 1] = sep[k]

\* strings.Index: first position of sep in s, 0 when absent
Index(s, sep) ==
    IF \E p \in 1..Len(s) : HasAt(s, sep, p)
    THEN CHOOSE p \in 1..Len(s) : HasAt(s, sep, p) /\ \A q \in 1..(p - 1) : ~HasAt(s, sep, q)
    ELSE 0

Contains(s, sub) == Len(sub) = 0 \/ Index(s, sub) # 0

RECURSIVE Split(_, _)
\* strings.Split(s, sep) for a non-empty sep: never fewer than one part
Split(s, sep) ==
    LET p == Index(s, sep) IN
    IF p = 0 THEN <<s>>
    ELSE <<Sub(s, 1, p - 1)>> \o Split(Sub(s, p + Len(sep), Len(s)), sep)

RECURSIVE DigitsVal(_)
DigitsVal(s) == IF Len(s) = 0 THEN 0 ELSE 10 * DigitsVal(Sub(s, 1, Len(s) - 1)) + DigitVal(s[Len(s)])

\* strconv.Atoi: optional sign, then one or more decimal digits
Atoi(s) ==
    LET signed == Len(s) > 0 /\ s[1] \in {"+", "-"}
        body   == IF signed THEN Sub(s, 2, Len(s)) ELSE s
    IN  IF Len(body) > 0 /\ \A k \in 1..Len(body) : IsDigit(body[k])
        THEN [ok |-> TRUE,
              val |-> IF signed /\ s[1] = "-" THEN 0 - DigitsVal(body) ELSE DigitsVal(body)]
        ELSE [ok |-> FALSE, val |-> 0]

RECURSIVE Itoa(_)
\* decimal rendering of a natural number
Itoa(n) == IF n < 10 THEN <<Digits[n + 1]>> ELSE Itoa(n \div 10) \o <<Digits[(n % 10) + 1]>>

(***************************************************************************)
(* Go integer division and remainder (truncated towards zero).             *)
(***************************************************************************)
Abs(x) == IF x < 0 THEN 0 - x ELSE x

GoDiv(a, b) ==
    LET q == Abs(a) \div Abs(b) IN IF (a < 0) = (b < 0) THEN q ELSE 0 - q

GoMod(a, b) == a - b * GoDiv(a, b)

(***************************************************************************)
(* Document trees (html.Node): Type, Data, Attr, children in order.        *)
(***************************************************************************)
sDiv == <<"d", "i", "v">>
sA == <<"a">>
sSpan == <<"s", "p", "a", "n">>
sPagesFromTo == <<"p", "a", "g", "e", "s", "F", "r", "o", "m", "T", "o">>
sProfileFilmsList == <<"p", "r", "o", "f", "i", "l", "e", "F", "i", "l", "m", "s", "L", "i", "s", "t">>
sItem == <<"i", "t", "e", "m">>
sItemEven == <<"i", "t", "e", "m", " ", "e", "v", "e", "n">>
sInfo == <<"i", "n", "f", "o">>
sNameRus == <<"n", "a", "m", "e", "R", "u", "s">>
sOther == <<"r", "a", "t", "i", "n", "g">>
\* " \u0438\u0437 " (Cyrillic "iz", "of"), the separator before the total;
\* a non-ASCII character is written as its code point
sOf == <<" ", "U+0438", "U+0437", " ">>
\* the em dash between first and last
sDash == <<"U+2014">>

Text(s) == [Type |-> "TextNode", Data |-> s, Attr |-> <<>>, Children |-> <<>>]

Elem(tag, attr, children) == [Type |-> "ElementNode", Data |-> tag, Attr |-> attr, Children |-> children]

Class(c) == <<[Key |-> "class", Val |-> c]>>

Href(h) == <<[Key |-> "href", Val |-> h]>>

\* html.Parse yields a document node above the html and body elements
Document(bodyChildren) ==
    [Type |-> "DocumentNode", Data |-> <<>>, Attr |-> <<>>,
     Children |-> <<Elem(<<"h", "t", "m", "l">>, <<>>,
                         <<Elem(<<"b", "o", "d", "y">>, <<>>, bodyChildren)>>)>>]

isClassName(n, className) ==
    \E k \in 1..Len(n.Attr) : n.Attr[k].Key = "class" /\ Contains(n.Attr[k].Val, className)

(***************************************************************************)
(* findPagingHeader: result is [panic, total, size].                       *)
(***************************************************************************)
Ret2(t, s) == [panic |-> FALSE, total |-> t, size |-> s]

Panic2 == [panic |-> TRUE, total |-> 0, size |-> 0]

pageSizeOf_noPlusOne(firstItemNumber, lastItemNumber) == lastItemNumber - firstItemNumber

\* line 232
pageSizeOf(firstItemNumber, lastItemNumber) == lastItemNumber - firstItemNumber + 1

\* the branch taken at a div whose class contains pagesFromTo
pagingHeaderAt(n) ==
    IF Len(n.Children) = 0 THEN Panic2
    ELSE
    LET pages == n.Children[1].Data
        pagesParts == Split(pages, sOf)
        pageRangeParts == Split(pagesParts[1], sDash)
        firstItemNumber == Atoi(pageRangeParts[1])
    IN  IF ~firstItemNumber.ok THEN Ret2(0, 0)
        ELSE IF Len(pageRangeParts) < 2 THEN Panic2
        ELSE
        LET lastItemNumber == Atoi(pageRangeParts[2]) IN
        IF ~lastItemNumber.ok THEN Ret2(0, 0)
        ELSE IF Len(pagesParts) < 2 THEN Panic2
        ELSE
        LET totalMoviesA == Atoi(pagesParts[2]) IN
        IF ~totalMoviesA.ok THEN Ret2(0, 0)
        ELSE Ret2(totalMoviesA.val, pageSizeOf(firstItemNumber.val, lastItemNumber.val))

RECURSIVE findPagingHeader(_)
RECURSIVE pagingHeaderChildren(_, _)
findPagingHeader(n) ==
    IF n.Type = "ElementNode" /\ n.Data = sDiv /\ isClassName(n, sPagesFromTo)
    THEN pagingHeaderAt(n)
    ELSE pagingHeaderChildren(n.Children, 1)

RECURSIVE pagingHeaderChildren_last(_, _)
pagingHeaderChildren_last(cs, k) ==
    IF k > Len(cs) THEN Ret2(0, 0)
    ELSE LET r == findPagingHeader(cs[k])
             rest == pagingHeaderChildren_last(cs, k + 1)
         IN  IF r.panic THEN r
             ELSE IF rest.panic \/ rest.total # 0 THEN rest ELSE r

\* the loop over the children: the first child reporting a non-zero total wins
pagingHeaderChildren(cs, k) ==
    IF k > Len(cs) THEN Ret2(0, 0)
    ELSE LET r == findPagingHeader(cs[k]) IN
         IF r.panic \/ r.total # 0 THEN r ELSE pagingHeaderChildren(cs, k + 1)

(***************************************************************************)
(* The record store: movies, a map from id to name.                        *)
(***************************************************************************)
EmptyMovies == [x \in {} |-> <<>>]

Put_keepFirst(mv, id, name) ==
    [x \in (DOMAIN mv) \cup {id} |-> IF x \in DOMAIN mv THEN mv[x] ELSE name]

Put(mv, id, name) == [x \in (DOMAIN mv) \cup {id} |-> IF x = id THEN name ELSE mv[x]]

(***************************************************************************)
(* extractId: result is [panic, id].                                       *)
(***************************************************************************)
\* parts[2] of the code, counted from 1 here
IdSegment == 3

extractId_second(href) ==
    LET parts == Split(href, <<"/">>) IN
    IF Len(parts) < 2 THEN [panic |-> TRUE, id |-> <<>>]
    ELSE [panic |-> FALSE, id |-> parts[2]]

extractId(href) ==
    LET parts == Split(href, <<"/">>) IN
    IF Len(parts) < IdSegment THEN [panic |-> TRUE, id |-> <<>>]
    ELSE [panic |-> FALSE, id |-> parts[IdSegment]]

(***************************************************************************)
(* processMovie: result is [panic, ok, movies].                            *)
(***************************************************************************)
FirstHrefAttr(e) ==
    IF \E k \in 1..Len(e.Attr) : e.Attr[k].Key = "href"
    THEN CHOOSE k \in 1..Len(e.Attr) :
            e.Attr[k].Key = "href" /\ \A j \in 1..(k - 1) : e.Attr[j].Key # "href"
    ELSE 0

storeMovie_fresh(e, a, mv) ==
    LET id == extractId(a.Val) IN
    IF id.panic \/ Len(e.Children) = 0 THEN [panic |-> TRUE, ok |-> FALSE, movies |-> mv]
    ELSE [panic |-> FALSE, ok |-> TRUE, movies |-> Put(EmptyMovies, id.id, e.Children[1].Data)]

\* line 332: movies[extractId(a.Val)] = e.FirstChild.Data
storeMovie(e, a, mv) ==
    LET id == extractId(a.Val) IN
    IF id.panic \/ Len(e.Children) = 0 THEN [panic |-> TRUE, ok |-> FALSE, movies |-> mv]
    ELSE [panic |-> FALSE, ok |-> TRUE, movies |-> Put(mv, id.id, e.Children[1].Data)]

NotFoundMovie(mv) == [panic |-> FALSE, ok |-> FALSE, movies |-> mv]

RECURSIVE movieAnchors(_, _, _)
\* the loop over e, the children of a nameRus node
movieAnchors(es, k, mv) ==
    IF k > Len(es) THEN NotFoundMovie(mv)
    ELSE LET e == es[k]
             h == FirstHrefAttr(e)
         IN  IF e.Type = "ElementNode" /\ e.Data = sA /\ h # 0
             THEN storeMovie(e, e.Attr[h], mv)
             ELSE movieAnchors(es, k + 1, mv)

RECURSIVE movieNames(_, _, _)
\* the loop over d, the children of an info node
movieNames(ds, k, mv) ==
    IF k > Len(ds) THEN NotFoundMovie(mv)
    ELSE LET r == IF isClassName(ds[k], sNameRus)
                  THEN movieAnchors(ds[k].Children, 1, mv)
                  ELSE NotFoundMovie(mv)
         IN  IF r.panic \/ r.ok THEN r ELSE movieNames(ds, k + 1, mv)

RECURSIVE movieInfos(_, _, _)
\* the loop over c, the children of an item
movieInfos(cs, k, mv) ==
    IF k > Len(cs) THEN NotFoundMovie(mv)
    ELSE LET r == IF isClassName(cs[k], sInfo)
                  THEN movieNames(cs[k].Children, 1, mv)
                  ELSE NotFoundMovie(mv)
         IN  IF r.panic \/ r.ok THEN r ELSE movieInfos(cs, k + 1, mv)

processMovie(n, mv) == movieInfos(n.Children, 1, mv)

(***************************************************************************)
(* processMovies and findMovies: result is [panic, count, movies].         *)
(***************************************************************************)
RECURSIVE processMoviesFrom(_, _, _, _)
processMoviesFrom(cs, k, parsedMoviesA, mv) ==
    IF k > Len(cs) THEN [panic |-> FALSE, count |-> parsedMoviesA, movies |-> mv]
    ELSE IF isClassName(cs[k], sItem) \/ isClassName(cs[k], sItemEven)
         THEN LET r == processMovie(cs[k], mv) IN
              IF r.panic THEN [panic |-> TRUE, count |-> parsedMoviesA, movies |-> r.movies]
              ELSE processMoviesFrom(cs, k + 1,
                                     IF r.ok THEN parsedMoviesA + 1 ELSE parsedMoviesA, r.movies)
         ELSE processMoviesFrom(cs, k + 1, parsedMoviesA, mv)

processMovies(n, mv) == processMoviesFrom(n.Children, 1, 0, mv)

RECURSIVE findMovies(_, _)
RECURSIVE findMoviesChildren(_, _, _)
findMovies(n, mv) ==
    IF n.Type = "ElementNode" /\ n.Data = sDiv /\ isClassName(n, sProfileFilmsList)
    THEN processMovies(n, mv)
    ELSE findMoviesChildren(n.Children, 1, mv)

\* the loop over the children: the first child reporting a non-zero count wins
findMoviesChildren(cs, k, mv) ==
    IF k > Len(cs) THEN [panic |-> FALSE, count |-> 0, movies |-> mv]
    ELSE LET r == findMovies(cs[k], mv) IN
         IF r.panic \/ r.count # 0 THEN r ELSE findMoviesChildren(cs, k + 1, r.movies)

(***************************************************************************)
(* Inputs: marker texts, documents, link targets, record files.            *)
(***************************************************************************)
\* "<first>U+2014<last> U+0438U+0437 <total>"
MarkerText(f, l, t) == Itoa(f) \o sDash \o Itoa(l) \o sOf \o Itoa(t)

SmallTriples == (0..MaxNum) \X (0..MaxNum) \X (0..MaxNum)

\* longer numerals, for findPagingHeader applied on its own
LongTriples == {<<1, 50, 237>>, <<51, 100, 237>>, <<201, 237, 237>>, <<1, 200, 0>>, <<10, 9, 12>>}

ValidMarkerTexts == {MarkerText(x[1], x[2], x[3]) : x \in SmallTriples}

LongMarkerTexts == {MarkerText(x[1], x[2], x[3]) : x \in LongTriples}

MalformedMarkerTexts ==
    { <<>>,
      <<"2">>,
      <<"1", "U+2014", "2">>,
      <<"a", "b", "c">>,
      <<"x", "U+2014", "2">> \o sOf \o <<"3">>,
      <<"1", "U+2014", "x">> \o sOf \o <<"3">>,
      <<"1", "U+2014", "2">> \o sOf \o <<"x">>,
      <<"1", "U+2013", "2">> \o sOf \o <<"3">>,
      <<"1", "U+2014", "2", " ", "o", "f", " ", "3">> }

Marker(text) == Elem(sDiv, Class(sPagesFromTo), <<Text(text)>>)

\* the body children that carry the pagination marker
MarkerParts ==
    { <<Marker(t)>> : t \in ValidMarkerTexts \cup MalformedMarkerTexts }
        \cup { <<>>,
               <<Elem(sDiv, Class(sPagesFromTo), <<>>)>>,
               <<Elem(sDiv, Class(sPagesFromTo), <<Elem(sSpan, <<>>, <<Text(MarkerText(1, 2, 3))>>)>>)>>,
               <<Marker(MarkerText(1, 2, 0)), Marker(MarkerText(1, 3, 2))>> }

hFilm1 == <<"/", "f", "i", "l", "m", "/", "1", "/">>
hFilm2 == <<"/", "f", "i", "l", "m", "/", "2", "/">>
hFilm3 == <<"/", "f", "i", "l", "m", "/", "3", "/">>
hShort == <<"/", "f", "i", "l", "m">>
hExample ==
    <<"/", "f", "i", "l", "m", "/", "t", "y", "p", "e", "/", "1", "/", "i", "d", "/",
      "5", "3", "5", "3", "4", "1", "/", "s", "o", "m", "e", "p", "a", "t", "h", "/">>
nameA == <<"A">>
nameB == <<"B">>

Anchor(href, name) == Elem(sA, Href(href), <<Text(name)>>)

Entry(class, anchors) ==
    Elem(sDiv, Class(class),
         <<Elem(sDiv, Class(sInfo), <<Elem(sDiv, Class(sNameRus), anchors)>>)>>)

Listing(children) == Elem(sDiv, Class(sProfileFilmsList), children)

\* the body children that carry the listing container
ListingParts ==
    { <<>>,
      <<Listing(<<>>)>>,
      <<Listing(<<Entry(sItem, <<Anchor(hFilm1, nameA)>>)>>)>>,
      <<Listing(<<Entry(sItem, <<Anchor(hFilm1, nameB)>>),
                  Entry(sItemEven, <<Anchor(hFilm2, nameA)>>)>>)>>,
      <<Listing(<<Entry(sItem, <<Anchor(hFilm3, nameA)>>),
                  Elem(sDiv, Class(sOther), <<>>),
                  Entry(sItemEven, <<Anchor(hFilm3, nameB)>>)>>)>>,
      <<Listing(<<Entry(sItem, <<>>), Elem(sDiv, Class(sOther), <<>>)>>)>>,
      <<Listing(<<Entry(sItem, <<Anchor(hShort, nameA)>>)>>)>>,
      <<Listing(<<Entry(sItem, <<Elem(sA, Href(hFilm2), <<>>)>>)>>)>>,
      <<Listing(<<Entry(sItem, <<Anchor(hExample, nameA)>>)>>)>> }

\* A generated child of a listing container, described by what it holds:
\*   full    info / nameRus / anchor with href and text
\*   notext  info / nameRus / anchor with href and no text child
\*   nohref  info / nameRus / anchor without href
\*   nopath  info / nameRus without anchor
\*   bare    no children
\*   list    a nested listing container that holds one full entry
Child(kind, class, href, name) == [kind |-> kind, class |-> class, href |-> href, name |-> name]

ChildNode(d) ==
    CASE d.kind = "full"   -> Entry(d.class, <<Anchor(d.href, d.name)>>)
      [] d.kind = "notext" -> Entry(d.class, <<Elem(sA, Href(d.href), <<>>)>>)
      [] d.kind = "nohref" -> Entry(d.class, <<Elem(sA, <<>>, <<Text(d.name)>>)>>)
      [] d.kind = "nopath" -> Entry(d.class, <<>>)
      [] d.kind = "bare"   -> Elem(sDiv, Class(d.class), <<>>)
      [] d.kind = "list"   -> Listing(<<Entry(sItem, <<Anchor(d.href, d.name)>>)>>)

ChildDescs ==
    { Child("full", sItem, hFilm1, nameA),
      Child("full", sItem, hFilm1, nameB),
      Child("full", sItemEven, hFilm2, nameA),
      Child("full", sOther, hFilm2, nameB),
      Child("full", sItem, hShort, nameA),
      Child("notext", sItem, hFilm1, nameA),
      Child("nohref", sItem, hFilm1, nameA),
      Child("nopath", sItemEven, hFilm1, nameA),
      Child("bare", sOther, hFilm1, nameA),
      Child("list", sProfileFilmsList, hFilm2, nameB) }

\* the listing container with the children described by ds
Container(ds) == Listing([k \in 1..Len(ds) |-> ChildNode(ds[k])])

\* the first page carries both the marker and the listing
Page(markerPart, listingPart) == Document(markerPart \o listingPart)

\* the document whose body holds the containers described by cs, in order
ContainersDoc(cs) == Page(<<>>, [k \in 1..Len(cs) |-> Container(cs[k])])

ErrorKinds == {"transportError", "parseError"}

NoResp == [kind |-> "none", doc |-> Document(<<>>)]

ErrorResponses == {[kind |-> k, doc |-> Document(<<>>)] : k \in ErrorKinds}

ProbeListing == <<Listing(<<Entry(sItem, <<Anchor(hFilm1, nameA)>>)>>)>>

\* what one fetch of the metadata page can bring
ProbeResponses ==
    ErrorResponses \cup
    {[kind |-> "doc", doc |-> Page(m, ProbeListing)] : m \in MarkerParts}

\* what one fetch of a listing page can bring
PageResponses ==
    ErrorResponses \cup
    {[kind |-> "doc", doc |-> Page(<<Marker(MarkerText(1, 2, 3))>>, l)] : l \in ListingParts}

RECURSIVE SeqsUpTo(_, _)
SeqsUpTo(S, n) ==
    IF n = 0 THEN {<<>>}
    ELSE LET shorter == SeqsUpTo(S, n - 1) IN
         shorter \cup {Append(q, x) : q \in shorter, x \in S}

\* link targets: segments joined by "/"
Segments == {<<>>, <<"f">>, <<"1", "2">>}

SegLists == SeqsUpTo(Segments, MaxSegs) \ {<<>>}

RECURSIVE Join(_)
Join(segs) == IF Len(segs) = 1 THEN segs[1] ELSE segs[1] \o <<"/">> \o Join(Tail(segs))

hFilm535341 == <<"/", "f", "i", "l", "m", "/", "5", "3", "5", "3", "4", "1", "/">>

Hrefs == {Join(segs) : segs \in SegLists} \cup {hExample, hFilm535341, hFilm1, hShort}

\* markers that come in pairs
PairTriples == {<<1, 2, 0>>, <<1, 3, 2>>, <<0, 1, 1>>}

MarkerOf(x) == Marker(MarkerText(x[1], x[2], x[3]))

\* two markers side by side
SiblingMarkersDoc(x, y) == Page(<<MarkerOf(x), MarkerOf(y)>>, <<>>)

\* the second marker inside the first, after its text
NestedMarkersDoc(x, y) ==
    Page(<<Elem(sDiv, Class(sPagesFromTo), <<Text(MarkerText(x[1], x[2], x[3])), MarkerOf(y)>>)>>, <<>>)

\* the first marker deeper in the tree than the second, and before it
DeepFirstMarkersDoc(x, y) == Page(<<Elem(sDiv, Class(sOther), <<MarkerOf(x)>>), MarkerOf(y)>>, <<>>)

\* documents for findPagingHeader applied on its own
HeaderDocs ==
    {Page(m, <<>>) : m \in MarkerParts \cup {<<Marker(t)>> : t \in LongMarkerTexts}}
        \cup {SiblingMarkersDoc(x, y) : x \in PairTriples, y \in PairTriples}
        \cup {NestedMarkersDoc(x, y) : x \in PairTriples, y \in PairTriples}
        \cup {DeepFirstMarkersDoc(x, y) : x \in PairTriples, y \in PairTriples}

\* generated containers, for processMovies applied on its own
ContainerDescs == SeqsUpTo(ChildDescs, MaxChildren)

\* generated documents for findMovies applied on its own: one container,
\* or two containers of at most one child each
ContainerLists ==
    {<<c>> : c \in ContainerDescs}
        \cup {<<c1, c2>> : c1 \in SeqsUpTo(ChildDescs, 1), c2 \in SeqsUpTo(ChildDescs, 1)}

\* record stores findMovies is applied to
InitialStores == {EmptyMovies, Put(EmptyMovies, <<"1">>, <<"Z">>)}

IdTexts == {<<"1">>, <<"1", "2">>, <<"-", "3">>, <<"x">>, <<>>, <<"1", "x">>}

CsvLines == {<<id, nameA>> : id \in IdTexts}

\* the files readMoviesCsv can return: lines of two fields
CsvFiles == SeqsUpTo(CsvLines, MaxRecords)

WatchOutcomes == {"requestError", "badJson", "notSuccess", "SUCCESS"}

(***************************************************************************)
(* State.                                                                  *)
(***************************************************************************)
\* the tally of extracted ids before any page was parsed
NoneExtracted == [x \in {} |-> 0]

\* the id that the link target of an entry of a served page carries
ServedId(h) ==
    CASE h = hFilm1 -> <<"1">>
      [] h = hFilm2 -> <<"2">>
      [] h = hFilm3 -> <<"3">>
      [] h = hExample -> <<"t", "y", "p", "e">>
      [] OTHER -> <<>>

\* the ids carried by the anchors with a text child below n, in document order
RECURSIVE EntryIds(_)
RECURSIVE EntryIdsOfAll(_, _)
EntryIds(n) ==
    IF n.Type = "ElementNode" /\ n.Data = sA /\ n.Attr # <<>> /\ n.Children # <<>>
    THEN <<ServedId(n.Attr[1].Val)>>
    ELSE EntryIdsOfAll(n.Children, 1)

EntryIdsOfAll(cs, k) ==
    IF k > Len(cs) THEN <<>> ELSE EntryIds(cs[k]) \o EntryIdsOfAll(cs, k + 1)

\* the tally t after the ids of seq, from position k on, were extracted once more each
RECURSIVE Tally(_, _, _)
Tally(t, seq, k) ==
    IF k > Len(seq) THEN t
    ELSE Tally([x \in (DOMAIN t) \cup {seq[k]} |->
                    IF x = seq[k] THEN (IF x \in DOMAIN t THEN t[x] + 1 ELSE 1) ELSE t[x]],
               seq, k + 1)

VARIABLES
    outputFilename,     \* -o flag, "" when absent
    inputFilename,      \* -i flag, "" when absent
    pc,                 \* position of the single thread of control
    panicAt,            \* the function that panicked, "" when none
    usagePrinted,       \* flag.PrintDefaults was called
    movies,             \* the global map id -> name
    totalMovies,        \* parseFirstPage / export
    pageSize,           \* parseFirstPage / export
    pageCount,          \* export
    i,                  \* export's page index
    parsedMovies,       \* export
    totalParsedMovies,  \* export
    foundMovies,        \* parsePage
    resp,               \* the response of the latest makeReq of harvest
    fetches,            \* makeReq calls made by the retry loop in progress
    zeros,              \* attempts of that loop that yielded zero
    loopSleeps,         \* time.Sleep calls made inside that loop
    exportSleeps,       \* time.Sleep calls made by export's page loop
    visited,            \* page indices handed to parsePage, in order
    okPages,            \* page indices for which an attempt counted non-zero
    fileWrites,         \* record files written by dumpFile
    sinceFetch,         \* time.Sleep calls of harvest since its latest makeReq, -1 before the first
    extracted,          \* id -> how many complete entries of the pages parsed so far carried it
    data,               \* importMovies: the lines read
    idx,                \* importMovies: position in data
    calls,              \* setMovieWatched calls made: [id, ok]
    importSleeps,       \* time.Sleep calls made by importMovies
    fnArg,              \* argument of a function applied on its own
    fnRet,              \* its result
    fnApplied,          \* how many times it has been applied
    fnFirst             \* the record store after its first application

flagVars == <<outputFilename, inputFilename>>
exportVars == <<totalMovies, pageSize, pageCount, i, parsedMovies, totalParsedMovies, foundMovies>>
loopVars == <<fetches, zeros, loopSleeps>>
histVars == <<exportSleeps, visited, okPages, fileWrites>>
importVars == <<data, idx, calls, importSleeps>>
fnVars == <<fnArg, fnRet, fnApplied, fnFirst>>
traceVars == <<sinceFetch, extracted>>

vars == <<flagVars, pc, panicAt, usagePrinted, movies, exportVars, resp, loopVars, histVars,
          importVars, fnVars, traceVars>>

NoRet == [done |-> FALSE, panic |-> FALSE, id |-> <<>>, total |-> 0, size |-> 0]

\* everything but the flags, before main has run
Idle ==
    /\ pc = "main"
    /\ panicAt = ""
    /\ usagePrinted = FALSE
    /\ movies = EmptyMovies
    /\ totalMovies = 0 /\ pageSize = 0 /\ pageCount = 0 /\ i = 0
    /\ parsedMovies = 0 /\ totalParsedMovies = 0 /\ foundMovies = 0
    /\ resp = NoResp
    /\ fetches = 0 /\ zeros = 0 /\ loopSleeps = 0
    /\ exportSleeps = 0 /\ visited = <<>> /\ okPages = {} /\ fileWrites = 0
    /\ data = <<>> /\ idx = 0 /\ calls = <<>> /\ importSleeps = 0
    /\ fnArg = [fn |-> "", arg |-> <<>>] /\ fnRet = NoRet
    /\ fnApplied = 0 /\ fnFirst = EmptyMovies
    /\ sinceFetch = -1 /\ extracted = NoneExtracted

Init ==
    /\ outputFilename \in {"", "out.csv"}
    /\ inputFilename \in {"", "in.csv"}
    /\ Idle

(***************************************************************************)
(* main                                                                    *)
(***************************************************************************)
Main_inputFirst ==
    /\ pc = "main"
    /\ movies' = EmptyMovies
    /\ IF inputFilename # "" THEN pc' = "importMovies" /\ usagePrinted' = FALSE
       ELSE IF outputFilename # "" THEN pc' = "parseFirstPage" /\ usagePrinted' = FALSE
       ELSE pc' = "exit" /\ usagePrinted' = TRUE
    /\ UNCHANGED <<flagVars, panicAt, exportVars, resp, loopVars, histVars, importVars, fnVars, traceVars>>

Main ==
    /\ pc = "main"
    /\ movies' = EmptyMovies
    /\ IF outputFilename # "" THEN pc' = "parseFirstPage" /\ usagePrinted' = FALSE
       ELSE IF inputFilename # "" THEN pc' = "importMovies" /\ usagePrinted' = FALSE
       ELSE pc' = "exit" /\ usagePrinted' = TRUE
    /\ UNCHANGED <<flagVars, panicAt, exportVars, resp, loopVars, histVars, importVars, fnVars, traceVars>>

(***************************************************************************)
(* parseFirstPage: one iteration of its loop                               *)
(***************************************************************************)
\* time.Sleep calls of one iteration of parseFirstPage's loop: it has none
parseFirstPageSleeps(total) == 0

ParseFirstPageAttempt ==
    /\ pc = "parseFirstPage"
    /\ fetches < MaxTries
    /\ \E r \in ProbeResponses :
        /\ resp' = r
        /\ fetches' = fetches + 1
        /\ IF r.kind \in ErrorKinds
           THEN \* return 0, 0
                /\ totalMovies' = 0 /\ pageSize' = 0
                /\ pc' = "export"
                /\ sinceFetch' = 0
                /\ UNCHANGED <<panicAt, zeros, loopSleeps>>
           ELSE LET h == findPagingHeader(r.doc) IN
                IF h.panic
                THEN /\ pc' = "panic" /\ panicAt' = "findPagingHeader"
                     /\ sinceFetch' = 0
                     /\ UNCHANGED <<totalMovies, pageSize, zeros, loopSleeps>>
                ELSE /\ totalMovies' = h.total /\ pageSize' = h.size
                     /\ loopSleeps' = loopSleeps + parseFirstPageSleeps(h.total)
                     /\ sinceFetch' = parseFirstPageSleeps(h.total)
                     /\ zeros' = IF h.total = 0 THEN zeros + 1 ELSE zeros
                     /\ pc' = IF h.total = 0 THEN "parseFirstPage" ELSE "export"
                     /\ UNCHANGED panicAt
    /\ UNCHANGED <<flagVars, usagePrinted, movies, pageCount, i, parsedMovies, totalParsedMovies,
                   foundMovies, histVars, importVars, fnVars, extracted>>

(***************************************************************************)
(* export                                                                  *)
(***************************************************************************)
\* lines 163-166, for pageSize # 0
pageCountOf(total, size) ==
    IF GoMod(total, size) # 0 THEN GoDiv(total, size) + 1 ELSE GoDiv(total, size)

\* lines 162-171: parseFirstPage has returned; the division panics on pageSize = 0
ExportPageCount ==
    /\ pc = "export"
    /\ IF pageSize = 0
       THEN /\ pc' = "panic" /\ panicAt' = "export"
            /\ UNCHANGED <<pageCount, i, resp, loopVars>>
       ELSE /\ pageCount' = pageCountOf(totalMovies, pageSize)
            /\ i' = 1
            /\ pc' = "pageLoop"
            /\ resp' = NoResp
            /\ fetches' = 0 /\ zeros' = 0 /\ loopSleeps' = 0
            /\ UNCHANGED panicAt
    /\ UNCHANGED <<flagVars, usagePrinted, movies, totalMovies, pageSize, parsedMovies,
                   totalParsedMovies, foundMovies, histVars, importVars, fnVars, traceVars>>

\* line 172: the loop condition; lines 173-178: the call of parsePage
ExportLoopHead ==
    /\ pc = "pageLoop"
    /\ IF i < pageCount + 1
       THEN /\ pc' = "parsePage"
            /\ visited' = Append(visited, i)
            /\ foundMovies' = 0
            /\ fetches' = 0 /\ zeros' = 0 /\ loopSleeps' = 0
       ELSE /\ pc' = "dumpFile"
            /\ UNCHANGED <<visited, foundMovies, loopVars>>
    /\ UNCHANGED <<flagVars, panicAt, usagePrinted, movies, totalMovies, pageSize, pageCount, i,
                   parsedMovies, totalParsedMovies, resp, exportSleeps, okPages, fileWrites,
                   importVars, fnVars, traceVars>>

parsePageSleeps_retryOnly(found) == IF found = 0 THEN 1 ELSE 0

\* time.Sleep calls of one completed iteration of parsePage's loop (line 278)
parsePageSleeps(found) == 1

\* parsePage: one iteration of its loop
ParsePageAttempt ==
    /\ pc = "parsePage"
    /\ fetches < MaxTries
    /\ \E r \in PageResponses :
        /\ resp' = r
        /\ fetches' = fetches + 1
        /\ IF r.kind \in ErrorKinds
           THEN \* return 0
                /\ parsedMovies' = 0
                /\ pc' = "afterPage"
                /\ sinceFetch' = 0
                /\ UNCHANGED extracted
                /\ UNCHANGED <<panicAt, movies, foundMovies, zeros, loopSleeps, okPages>>
           ELSE LET f == findMovies(r.doc, movies) IN
                IF f.panic
                THEN /\ pc' = "panic" /\ panicAt' = "processMovie"
                     /\ sinceFetch' = 0
                     /\ UNCHANGED extracted
                     /\ UNCHANGED <<movies, parsedMovies, foundMovies, zeros, loopSleeps, okPages>>
                ELSE /\ movies' = f.movies
                     /\ foundMovies' = f.count
                     /\ loopSleeps' = loopSleeps + parsePageSleeps(f.count)
                     /\ sinceFetch' = parsePageSleeps(f.count)
                     /\ extracted' = Tally(extracted, EntryIds(r.doc), 1)
                     /\ zeros' = IF f.count = 0 THEN zeros + 1 ELSE zeros
                     /\ okPages' = IF f.count # 0 THEN okPages \cup {i} ELSE okPages
                     /\ parsedMovies' = IF f.count # 0 THEN f.count ELSE parsedMovies
                     /\ pc' = IF f.count = 0 THEN "parsePage" ELSE "afterPage"
                     /\ UNCHANGED panicAt
    /\ UNCHANGED <<flagVars, usagePrinted, totalMovies, pageSize, pageCount, i, totalParsedMovies,
                   exportSleeps, visited, fileWrites, importVars, fnVars>>

ExportAfterPage_lastPage ==
    /\ pc = "afterPage"
    /\ totalParsedMovies' = parsedMovies
    /\ exportSleeps' = exportSleeps + 1
    /\ sinceFetch' = sinceFetch + 1
    /\ i' = i + 1
    /\ pc' = "pageLoop"
    /\ resp' = NoResp
    /\ UNCHANGED <<flagVars, panicAt, usagePrinted, movies, totalMovies, pageSize, pageCount,
                   parsedMovies, foundMovies, loopVars, visited, okPages, fileWrites,
                   importVars, fnVars, extracted>>

\* lines 179-180 and the i++ of line 172
ExportAfterPage ==
    /\ pc = "afterPage"
    /\ totalParsedMovies' = totalParsedMovies + parsedMovies
    /\ exportSleeps' = exportSleeps + 1
    /\ sinceFetch' = sinceFetch + 1
    /\ i' = i + 1
    /\ pc' = "pageLoop"
    /\ resp' = NoResp
    /\ UNCHANGED <<flagVars, panicAt, usagePrinted, movies, totalMovies, pageSize, pageCount,
                   parsedMovies, foundMovies, loopVars, visited, okPages, fileWrites,
                   importVars, fnVars, extracted>>

\* dumpFile: the file is written unless it cannot be created
DumpFile ==
    /\ pc = "dumpFile"
    /\ \E created \in BOOLEAN : fileWrites' = IF created THEN fileWrites + 1 ELSE fileWrites
    /\ pc' = "exit"
    /\ UNCHANGED <<flagVars, panicAt, usagePrinted, movies, exportVars, resp, loopVars,
                   exportSleeps, visited, okPages, importVars, fnVars, traceVars>>

(***************************************************************************)
(* importMovies                                                            *)
(***************************************************************************)
\* readMoviesCsv: log.Fatal when the file cannot be opened or read
ReadMoviesCsv ==
    /\ pc = "importMovies"
    /\ \/ /\ pc' = "fatal"
          /\ UNCHANGED <<data, idx>>
       \/ /\ \E d \in CsvFiles : data' = d
          /\ idx' = 1
          /\ pc' = "importLoop"
    /\ UNCHANGED <<flagVars, panicAt, usagePrinted, movies, exportVars, resp, loopVars, histVars,
                   calls, importSleeps, fnVars, traceVars>>

\* the result of setMovieWatched for what the remote call brings
setMovieWatched(outcome) == outcome = "SUCCESS"

onBadId_skip(k) == [pc |-> "importLoop", idx |-> k + 1]

\* lines 90-93: where the loop goes on an id that is not an integer
onBadId(k) == [pc |-> "exit", idx |-> k]

afterWatch_stopOnFailure(ok, k) ==
    IF ok THEN [pc |-> "importLoop", idx |-> k + 1] ELSE [pc |-> "exit", idx |-> k + 1]

\* lines 95-102: where the loop goes after the call, whatever its result
afterWatch(ok, k) == [pc |-> "importLoop", idx |-> k + 1]

\* calls of setMovieWatched made for one record with an integer id (line 95)
watchCalls(id, outcome) == <<[id |-> id, ok |-> setMovieWatched(outcome)]>>

\* one iteration of the loop over the lines
ImportRecord ==
    /\ pc = "importLoop"
    /\ idx <= Len(data)
    /\ LET movieId == data[idx][1]
           movieIdInt == Atoi(movieId)
       IN  IF ~movieIdInt.ok
           THEN /\ pc' = onBadId(idx).pc
                /\ idx' = onBadId(idx).idx
                /\ UNCHANGED <<calls, importSleeps>>
           ELSE \E outcome \in WatchOutcomes :
                LET made == watchCalls(movieIdInt.val, outcome)
                    next == afterWatch(made[Len(made)].ok, idx)
                IN  /\ calls' = calls \o made
                    /\ importSleeps' = importSleeps + 1
                    /\ pc' = next.pc
                    /\ idx' = next.idx
    /\ UNCHANGED <<flagVars, panicAt, usagePrinted, movies, exportVars, resp, loopVars, histVars,
                   data, fnVars, traceVars>>

\* the loop over the lines is exhausted
ImportDone ==
    /\ pc = "importLoop"
    /\ idx > Len(data)
    /\ pc' = "exit"
    /\ UNCHANGED <<flagVars, panicAt, usagePrinted, movies, exportVars, resp, loopVars, histVars,
                   importVars, fnVars, traceVars>>

Next ==
    \/ Main
    \/ ParseFirstPageAttempt
    \/ ExportPageCount
    \/ ExportLoopHead
    \/ ParsePageAttempt
    \/ ExportAfterPage
    \/ DumpFile
    \/ ReadMoviesCsv
    \/ ImportRecord
    \/ ImportDone

Spec == Init /\ [][Next]_vars

TypeOK ==
    /\ pc \in {"main", "parseFirstPage", "export", "pageLoop", "parsePage", "afterPage",
               "dumpFile", "importMovies", "importLoop", "exit", "panic", "fatal"}
    /\ fetches \in 0..MaxTries
    /\ loopSleeps \in 0..MaxTries

(***************************************************************************)
(* extractId and findPagingHeader applied on their own to one argument.    *)
(***************************************************************************)
\* a function is about to be applied to one of the arguments args
FnStart(args) ==
    /\ outputFilename = "" /\ inputFilename = ""
    /\ pc = "main"
    /\ panicAt = ""
    /\ usagePrinted = FALSE
    /\ totalMovies = 0 /\ pageSize = 0 /\ pageCount = 0 /\ i = 0
    /\ parsedMovies = 0 /\ totalParsedMovies = 0 /\ foundMovies = 0
    /\ resp = NoResp
    /\ fetches = 0 /\ zeros = 0 /\ loopSleeps = 0
    /\ exportSleeps = 0 /\ visited = <<>> /\ okPages = {} /\ fileWrites = 0
    /\ data = <<>> /\ idx = 0 /\ calls = <<>> /\ importSleeps = 0
    /\ fnArg \in args
    /\ movies \in (IF fnArg.fn = "findMovies" THEN InitialStores ELSE {EmptyMovies})
    /\ fnRet = NoRet
    /\ fnApplied = 0 /\ fnFirst = EmptyMovies
    /\ sinceFetch = -1 /\ extracted = NoneExtracted

FnInit ==
    FnStart({[fn |-> "extractId", arg |-> h] : h \in Hrefs}
                \cup {[fn |-> "findPagingHeader", arg |-> d] : d \in HeaderDocs}
                \cup {[fn |-> "findMovies", arg |-> cs] : cs \in ContainerLists})

ProcessMoviesInit == FnStart({[fn |-> "processMovies", arg |-> c] : c \in ContainerDescs})

ApplyExtractId ==
    /\ fnArg.fn = "extractId"
    /\ ~fnRet.done
    /\ LET r == extractId(fnArg.arg) IN
       fnRet' = [done |-> TRUE, panic |-> r.panic, id |-> r.id, total |-> 0, size |-> 0]
    /\ UNCHANGED <<flagVars, pc, panicAt, usagePrinted, movies, exportVars, resp, loopVars,
                   histVars, importVars, fnArg, fnApplied, fnFirst, traceVars>>

ApplyFindPagingHeader ==
    /\ fnArg.fn = "findPagingHeader"
    /\ ~fnRet.done
    /\ LET r == findPagingHeader(fnArg.arg) IN
       fnRet' = [done |-> TRUE, panic |-> r.panic, id |-> <<>>, total |-> r.total, size |-> r.size]
    /\ UNCHANGED <<flagVars, pc, panicAt, usagePrinted, movies, exportVars, resp, loopVars,
                   histVars, importVars, fnArg, fnApplied, fnFirst, traceVars>>

\* processMovies applied once to a generated container
ApplyProcessMovies ==
    /\ fnArg.fn = "processMovies"
    /\ ~fnRet.done
    /\ LET r == processMovies(Container(fnArg.arg), movies) IN
       /\ fnRet' = [done |-> TRUE, panic |-> r.panic, id |-> <<>>, total |-> 0, size |-> 0]
       /\ foundMovies' = r.count
       /\ movies' = IF r.panic THEN movies ELSE r.movies
       /\ fnFirst' = IF r.panic THEN movies ELSE r.movies
    /\ fnApplied' = 1
    /\ UNCHANGED <<flagVars, pc, panicAt, usagePrinted, totalMovies, pageSize, pageCount, i,
                   parsedMovies, totalParsedMovies, resp, loopVars, histVars, importVars, fnArg, traceVars>>

\* findMovies applied to a generated document, and then once more to the same document
ApplyFindMovies ==
    /\ fnArg.fn = "findMovies"
    /\ fnApplied < 2
    /\ ~fnRet.panic
    /\ LET r == findMovies(ContainersDoc(fnArg.arg), movies) IN
       /\ fnRet' = [done |-> TRUE, panic |-> r.panic, id |-> <<>>, total |-> 0, size |-> 0]
       /\ foundMovies' = r.count
       /\ movies' = IF r.panic THEN movies ELSE r.movies
       /\ fnFirst' = IF fnApplied = 0 /\ ~r.panic THEN r.movies ELSE fnFirst
    /\ fnApplied' = fnApplied + 1
    /\ UNCHANGED <<flagVars, pc, panicAt, usagePrinted, totalMovies, pageSize, pageCount, i,
                   parsedMovies, totalParsedMovies, resp, loopVars, histVars, importVars, fnArg, traceVars>>

FnNext == ApplyExtractId \/ ApplyFindPagingHeader \/ ApplyFindMovies

FnSpec == FnInit /\ [][FnNext]_vars

\* processMovies applied on its own
ProcessMoviesNext == ApplyProcessMovies

ProcessMoviesSpec == ProcessMoviesInit /\ [][ProcessMoviesNext]_vars

(***************************************************************************)
(* Properties.                                                             *)
(***************************************************************************)
Harvest == outputFilename # "" /\ pc # "main"

\* C1: a transport error or a document-parse error on a fetch attempt of
\* parseFirstPage or parsePage counts as a zero-result attempt: after it the
\* same retry loop is still running, it does not end the loop or the run.
C1_ErrorIsRetried ==
    resp.kind \in ErrorKinds => pc \in {"parseFirstPage", "parsePage"}

C3_EveryPageParsed ==
    /\ \A k \in 1..Len(visited) : visited[k] = k
    /\ \A k \in 1..(Len(visited) - 1) : k \in okPages
    /\ pc = "dumpFile" =>
            /\ Len(visited) = (IF pageCount > 0 THEN pageCount ELSE 0)
            /\ \A p \in 1..pageCount : p \in okPages

\* C4: as long as no probe attempt has yielded a non-zero totalItems, harvest
\* stays in parseFirstPage: no listing page is fetched, no file is written,
\* the process neither exits nor crashes.
C4_ZeroProbeNeverEnds ==
    (Harvest /\ totalMovies = 0 /\ panicAt # "findPagingHeader") =>
        (pc = "parseFirstPage" /\ visited = <<>> /\ fileWrites = 0)

\* position of the first line whose id strconv.Atoi rejects, Len + 1 if none
FirstBad(d) ==
    IF \E k \in 1..Len(d) : ~Atoi(d[k][1]).ok
    THEN CHOOSE k \in 1..Len(d) : ~Atoi(d[k][1]).ok /\ \A j \in 1..(k - 1) : Atoi(d[j][1]).ok
    ELSE Len(d) + 1

\* C5: replay never gets past the first record whose id is not an integer:
\* the run ends at that record, with no call for it or for a later record,
\* and one call for every earlier record.
C5_BadIdAborts ==
    idx >= 1 =>
        /\ idx <= FirstBad(data)
        /\ Len(calls) <= FirstBad(data) - 1
        /\ (pc = "exit" /\ FirstBad(data) <= Len(data)) =>
                (idx = FirstBad(data) /\ Len(calls) = FirstBad(data) - 1)

\* a run aborted at a bad id that has records before and after it
C5_Witness ==
    pc = "exit" /\ Len(data) = 3 /\ FirstBad(data) = 2 /\ Len(calls) = 1

\* C6: replay calls setMovieWatched once per record with an integer id, in
\* input order, sleeps once after each call, and a failed call does not stop
\* it: at the end every record before the first bad id has had its call.
C6_OneCallPerRecord ==
    idx >= 1 =>
        /\ \A k \in 1..Len(calls) :
                Atoi(data[k][1]).ok /\ calls[k].id = Atoi(data[k][1]).val
        /\ importSleeps = Len(calls)
        /\ pc = "importLoop" => Len(calls) = idx - 1
        /\ pc = "exit" => Len(calls) = FirstBad(data) - 1

\* a finished run whose first call failed and was followed by another call
C6_Witness ==
    pc = "exit" /\ Len(calls) >= 2 /\ ~calls[1].ok /\ Len(calls) = Len(data)

sId535341 == <<"5", "3", "5", "3", "4", "1">>

\* C7 as claimed: extractId("/film/type/1/id/535341/somepath/") = "535341"
C7_ExampleGivesId ==
    (fnArg.fn = "extractId" /\ fnArg.arg = hExample /\ fnRet.done) =>
        (~fnRet.panic /\ fnRet.id = sId535341)

\* C7 as amended: extractId returns the third slash-delimited segment of a
\* link target that has at least three: "535341" for "/film/535341/", and
\* "type" for "/film/type/1/id/535341/somepath/".
C7_ThirdSegment ==
    (fnArg.fn = "extractId" /\ fnRet.done) =>
        /\ \A segs \in SegLists :
                (fnArg.arg = Join(segs) /\ Len(segs) >= 3) =>
                    (~fnRet.panic /\ fnRet.id = segs[3])
        /\ fnArg.arg = hFilm535341 => (~fnRet.panic /\ fnRet.id = sId535341)
        /\ fnArg.arg = hExample => (~fnRet.panic /\ fnRet.id = <<"t", "y", "p", "e">>)

\* extractId has been applied to the link target of the claim
C7_Witness == fnArg.fn = "extractId" /\ fnArg.arg = hExample /\ fnRet.done /\ ~fnRet.panic

\* first pages whose marker is malformed: a text that does not have the
\* three numbers and the two separators, or no text child at all
MalformedProbeDocs ==
    {Page(<<Marker(t)>>, ProbeListing) : t \in MalformedMarkerTexts}
        \cup {Page(<<Elem(sDiv, Class(sPagesFromTo), <<>>)>>, ProbeListing)}

\* C8: on a malformed marker findPagingHeader reports (0, 0) and
\* parseFirstPage goes on to its next attempt; the process does not crash.
C8_MalformedMarkerRetried ==
    (resp.kind = "doc" /\ resp.doc \in MalformedProbeDocs) =>
        (pc = "parseFirstPage" /\ totalMovies = 0 /\ pageSize = 0)

MarkerDoc(x) == Page(<<Marker(MarkerText(x[1], x[2], x[3]))>>, <<>>)

IsCeil(c, t, s) ==
    IF s > 0 THEN c * s >= t /\ (c - 1) * s < t
    ELSE s < 0 /\ c * s <= t /\ (c - 1) * s > t

\* C10: for every pair parseFirstPage hands to export, a page count is
\* computed, it is ceil(totalItems / pageSize), and the page loop fetches
\* exactly that many page indices.
C10_PageCountIsCeil ==
    Harvest =>
        /\ ~(pc = "panic" /\ panicAt = "export")
        /\ pc \in {"pageLoop", "parsePage", "afterPage", "dumpFile"} =>
                IsCeil(pageCount, totalMovies, pageSize)
        /\ pc = "dumpFile" => Len(visited) = pageCount

\* what a generated child is, read off its description
AcceptedDesc(d) == d.class \in {sItem, sItemEven}

HasFullPath(d) == d.kind \in {"full", "notext"}

\* the id that a link target of a generated child carries
IdOfHref(h) ==
    CASE h = hFilm1 -> <<"1">>
      [] h = hFilm2 -> <<"2">>
      [] h = hFilm3 -> <<"3">>
      [] OTHER -> <<>>

\* positions of the accepted children of ds that have the full path
FullEntries(ds) == {k \in 1..Len(ds) : AcceptedDesc(ds[k]) /\ HasFullPath(ds[k])}

\* C11: processMovies on a container returns the number N of its children
\* that are accepted list entries with the full info / nameRus / anchor /
\* href path, whatever other children there are, inserts those N entries in
\* document order (a later entry overwrites an earlier one of the same id),
\* and raises no error.
C11_CountsFullEntries ==
    (fnArg.fn = "processMovies" /\ fnRet.done) =>
        /\ ~fnRet.panic
        /\ foundMovies = Cardinality(FullEntries(fnArg.arg))
        /\ DOMAIN movies = {IdOfHref(fnArg.arg[k].href) : k \in FullEntries(fnArg.arg)}
        /\ \A k \in FullEntries(fnArg.arg) :
                (\A j \in FullEntries(fnArg.arg) : j > k => fnArg.arg[j].href # fnArg.arg[k].href)
                    => movies[IdOfHref(fnArg.arg[k].href)] = fnArg.arg[k].name

\* the same holds of the containers whose full entries have a text in the
\* anchor and a link target of three segments
CountsWellFormedEntries ==
    (/\ fnArg.fn = "processMovies" /\ fnRet.done
     /\ \A k \in FullEntries(fnArg.arg) :
            fnArg.arg[k].kind = "full" /\ fnArg.arg[k].href # hShort) =>
        /\ ~fnRet.panic
        /\ foundMovies = Cardinality(FullEntries(fnArg.arg))
        /\ DOMAIN movies = {IdOfHref(fnArg.arg[k].href) : k \in FullEntries(fnArg.arg)}
        /\ \A k \in FullEntries(fnArg.arg) :
                (\A j \in FullEntries(fnArg.arg) : j > k => fnArg.arg[j].href # fnArg.arg[k].href)
                    => movies[IdOfHref(fnArg.arg[k].href)] = fnArg.arg[k].name

\* positions of the entries of ds that carry the id
EntriesOfId(ds, id) == {k \in FullEntries(ds) : IdOfHref(ds[k].href) = id}

Last(S) == CHOOSE k \in S : \A j \in S : j <= k

\* C12: the store is keyed by id and the last write wins: after a document
\* with one container is processed, an id carries the name of the last entry
\* that has it, and an id no entry has keeps the name it had; processing the
\* same document a second time leaves keys, names and size as they were
\* after the first time.
C12_MergeIdempotent ==
    (fnArg.fn = "findMovies" /\ fnApplied >= 1 /\ ~fnRet.panic) =>
        /\ Len(fnArg.arg) = 1 =>
                \A id \in DOMAIN movies :
                    IF EntriesOfId(fnArg.arg[1], id) # {}
                    THEN movies[id] = fnArg.arg[1][Last(EntriesOfId(fnArg.arg[1], id))].name
                    ELSE id = <<"1">> /\ movies[id] = <<"Z">>
        /\ fnApplied = 2 =>
                /\ movies = fnFirst
                /\ Cardinality(DOMAIN movies) = Cardinality(DOMAIN fnFirst)

\* a document with two entries of one id and two names, processed twice
C12_Witness ==
    /\ fnArg.fn = "findMovies" /\ fnApplied = 2 /\ ~fnRet.panic
    /\ fnArg.arg = <<<<Child("full", sItem, hFilm1, nameA), Child("full", sItem, hFilm1, nameB)>>>>
    /\ movies = Put(EmptyMovies, <<"1">>, nameB)

\* C13: one run mode per invocation. With an output path only harvest runs
\* (no record is read, no mutation call is made); with an input path and no
\* output path only replay runs (no fetch, no file written); with neither
\* the usage is printed and nothing is fetched, called or written.
C13_OneMode ==
    /\ outputFilename # "" =>
            /\ pc \notin {"importMovies", "importLoop", "fatal"}
            /\ calls = <<>> /\ idx = 0 /\ importSleeps = 0
            /\ ~usagePrinted
    /\ (outputFilename = "" /\ inputFilename # "") =>
            /\ pc \in {"main", "importMovies", "importLoop", "exit", "fatal"}
            /\ resp = NoResp /\ fetches = 0 /\ visited = <<>> /\ fileWrites = 0
            /\ ~usagePrinted
    /\ (outputFilename = "" /\ inputFilename = "") =>
            /\ pc \in {"main", "exit"}
            /\ usagePrinted = (pc = "exit")
            /\ resp = NoResp /\ fetches = 0 /\ visited = <<>> /\ fileWrites = 0
            /\ calls = <<>> /\ idx = 0

\* a finished harvest of an invocation that gave both paths
C13_Witness ==
    outputFilename # "" /\ inputFilename # "" /\ pc = "exit" /\ fileWrites = 1

\* C14: whenever export is about to compute the page count, the values it
\* received satisfy pageSize > 0 and totalItems >= 0.
C14_PagingValuesValid ==
    pc = "export" => (pageSize > 0 /\ totalMovies >= 0)

\* what a marker alone stands for: (total, last - first + 1)
TripleValue(x) == <<x[3], x[2] - x[1] + 1>>

HeaderValue == <<fnRet.total, fnRet.size>>

\* ids of the full entries of a generated container
IdsOf(ds) == {IdOfHref(ds[k].href) : k \in FullEntries(ds)}

\* C15 as claimed: the result of the search comes from the first node, in
\* document order, that satisfies the class predicate: of two markers the
\* first gives the total, of two containers the first gives the count; a
\* later or nested matching node has no influence.
C15_FirstMatchDecides ==
    /\ (fnArg.fn = "findPagingHeader" /\ fnRet.done) =>
            \A x \in PairTriples, y \in PairTriples :
                fnArg.arg \in {SiblingMarkersDoc(x, y), NestedMarkersDoc(x, y),
                               DeepFirstMarkersDoc(x, y)}
                    => (~fnRet.panic /\ fnRet.total = x[3])
    /\ (fnArg.fn = "findMovies" /\ fnApplied = 1 /\ ~fnRet.panic /\ Len(fnArg.arg) = 2) =>
            foundMovies = Cardinality(FullEntries(fnArg.arg[1]))

\* C15 as amended: the search is pre-order and never descends into a
\* matching node, and its result comes from the first matching node, in
\* document order, that yields a non-zero total (findPagingHeader) or a
\* non-zero count (findMovies); matching nodes that yield zero are passed
\* over, so a later matching node decides when the earlier ones yield zero.
C15_FirstNonZeroMatchDecides ==
    /\ (fnArg.fn = "findPagingHeader" /\ fnRet.done) =>
            \A x \in PairTriples, y \in PairTriples :
                /\ fnArg.arg \in {SiblingMarkersDoc(x, y), DeepFirstMarkersDoc(x, y)} =>
                        /\ ~fnRet.panic
                        /\ HeaderValue = (IF x[3] # 0 THEN TripleValue(x)
                                          ELSE IF y[3] # 0 THEN TripleValue(y) ELSE <<0, 0>>)
                /\ fnArg.arg = NestedMarkersDoc(x, y) =>
                        /\ ~fnRet.panic
                        /\ HeaderValue = (IF x[3] # 0 THEN TripleValue(x) ELSE <<0, 0>>)
    /\ (fnArg.fn = "findMovies" /\ fnApplied = 1 /\ ~fnRet.panic /\ Len(fnArg.arg) = 2) =>
            LET c == IF FullEntries(fnArg.arg[1]) # {} THEN fnArg.arg[1] ELSE fnArg.arg[2] IN
            /\ foundMovies = Cardinality(FullEntries(c))
            /\ (DOMAIN movies) \ {<<"1">>} = IdsOf(c) \ {<<"1">>}
            /\ IdsOf(c) \subseteq DOMAIN movies

\* a first marker with total 0 followed by a marker with total 2
C15_Witness ==
    /\ fnArg.fn = "findPagingHeader" /\ fnRet.done
    /\ fnArg.arg = SiblingMarkersDoc(<<1, 2, 0>>, <<1, 3, 2>>)
    /\ HeaderValue = <<2, 3>>

\* a step that issues a harvest fetch (makeReq of parseFirstPage or parsePage)
HarvestFetch == pc \in {"parseFirstPage", "parsePage"} /\ fetches' = fetches + 1

\* C16: harvest pacing: a harvest fetch that follows another one is separated
\* from it by at least one 5-second delay, and the first fetch of a target
\* (the metadata page, listing page i) comes exactly one delay after the last
\* fetch of the target before it.
C16_OneDelayBetweenFetches ==
    [][(HarvestFetch /\ sinceFetch >= 0) =>
            /\ sinceFetch >= 1
            /\ fetches = 0 => sinceFetch = 1]_vars

\* C18: every id that harvest has stored is a non-empty string of decimal
\* digits, which importMovies' integer conversion accepts.
C18_StoredIdsAreNumeric ==
    Harvest => \A id \in DOMAIN movies :
                    /\ id # <<>>
                    /\ \A k \in 1..Len(id) : IsDigit(id[k])
                    /\ Atoi(id).ok

RunningParsed == totalParsedMovies + (IF pc = "afterPage" THEN parsedMovies ELSE 0)

\* C19: at every point of a harvest run the store holds exactly the ids
\* extracted so far, their number is at most the running total of the
\* per-page parsed counts, and it equals that total exactly when no id was
\* extracted more than once.
C19_DistinctAtMostParsed ==
    Harvest =>
        /\ DOMAIN movies = DOMAIN extracted
        /\ Cardinality(DOMAIN movies) <= RunningParsed
        /\ (Cardinality(DOMAIN movies) = RunningParsed)
                <=> (\A id \in DOMAIN extracted : extracted[id] = 1)

\* a finished run in which some id was extracted twice
C19_Witness ==
    /\ Harvest /\ pc = "exit"
    /\ \E id \in DOMAIN extracted : extracted[id] >= 2
    /\ Cardinality(DOMAIN movies) < totalParsedMovies

====
